---- MODULE Spec2Model ----
(***************************************************************************)
(* A model of make_datasets.py (FinnGen endpoint browser datasets): the    *)
(* pipeline of main(), the metadata passes of gather_info(), the overlap   *)
(* tree of build_tree() and the per-code case tallies of                   *)
(* find_code_cases().                                                      *)
(*                                                                         *)
(* Values read from JSON and CSV are records [k, n, s]:                    *)
(*   k = "null"  JSON null (Python None)                                   *)
(*   k = "nan"   JSON NaN  (Python float nan)                              *)
(*   k = "num"   a number; n is twice its value, so that halves such as    *)
(*               0.5 and 4.5 are representable                             *)
(*   k = "str"   a string; s is its sequence of characters                 *)
(*   k = "absent" the dict has no such key                                 *)
(* Floats parsed from CSV text are records [nan, c], c in hundredths.      *)
(***************************************************************************)
EXTENDS Integers, Sequences, FiniteSets, TLC

VARIABLES
    pc,          \* position in main(): the call that is running
    error,       \* the uncaught exception, [type, where]
    args,        \* parsed command line: subset_threshold
    remaining,   \* rows (files) left unread in each input
    endpoints,   \* gather_info: endpoints dict, code -> record
    stats_seen,  \* set_ncases: keys of stats["stats"] already iterated
    sn,          \* set_ncases: loop locals endpoint, n_cases, nn
    gws_hits,    \* get_gws_hits: gws_hits dict
    tree,        \* build_tree: tree list
    bt,          \* build_tree: the row last read and its line number
    eligible,    \* build_tree variant: the eligibility set, if supplied
    out,         \* find_code_cases: out dict
    fc,          \* find_code_cases: fpath.name and data of the last file
    files,       \* the three output files, <<>> until written
    hierarchy    \* inclusion hierarchy variant: code -> [parents, children]

vars == <<pc, error, args, remaining, endpoints, stats_seen, sn, gws_hits,
          tree, bt, eligible, out, fc, files, hierarchy>>

----------------------------------------------------------------------------
(* Bounds of the model: rows read from each input.                         *)

MaxDefRows == 1
MaxStatsRows == 1
MaxMetaRows == 1
MaxGwsRows == 1
MaxPipelineTreeRows == 1
MaxCodeFiles == 1
MaxRecords == 1
MaxNcasesDefRows == 2
MaxNcasesStatsRows == 2
MaxTreeRows == 3
MaxEligibleRows == 2
MaxInclRows == 2

----------------------------------------------------------------------------
(* Values.                                                                 *)

JNull == [k |-> "null", n |-> 0, s |-> <<>>]
JNaN == [k |-> "nan", n |-> 0, s |-> <<>>]
Absent == [k |-> "absent", n |-> 0, s |-> <<>>]
JNum(twice) == [k |-> "num", n |-> twice, s |-> <<>>]
JInt(i) == JNum(2 * i)
JStr(chars) == [k |-> "str", n |-> 0, s |-> chars]

\* The string "<5" of the tally tables.
Sentinel == JStr(<<"<", "5">>)

\* The minimum cell size of both assertions.
MinCell == 5

NoError == [type |-> "none", where |-> "none"]
Raise(type, where) == [type |-> type, where |-> where]

Codes == {"E1", "E2"}

\* The counts of a stats item: null, NaN, 0, 0.5, 1, 2, 3, 4, 5, 6, "<5".
NcasesValues ==
    {JNull, JNaN, JInt(0), JNum(1), JInt(1), JInt(2), JInt(3), JInt(4),
     JInt(5), JInt(6), Sentinel}

\* The counts of a stats item in the runs of the whole pipeline.
PipelineNcasesValues == {JNull, JInt(3), JInt(5), Sentinel}

Digits == <<"0", "1", "2", "3", "4", "5", "6", "7", "8", "9">>

IsDigit(ch) == \E i \in 1..10 : Digits[i] = ch

DigitValue(ch) == (CHOOSE i \in 1..10 : Digits[i] = ch) - 1

----------------------------------------------------------------------------
(* set_ncases: the assertion of line 171 on one value.                     *)

\* The bug of a strict comparison, nn > 5.
AtLeastMinCell_Strict(nn) == nn.n > 2 * MinCell

\* nn >= 5, nn a number held as twice its value.
AtLeastMinCell(nn) == nn.n >= 2 * MinCell

\* "ok", or the exception raised while evaluating
\*   nn is None or isnan(nn) or nn == 0 or nn >= 5
\* isnan() of a str raises TypeError.
NcasesAssert(nn) ==
    IF nn.k = "null" THEN "ok"
    ELSE IF nn.k = "str" THEN "TypeError"
    ELSE IF nn.k = "nan" THEN "ok"
    ELSE IF nn.n = 0 \/ AtLeastMinCell(nn) THEN "ok"
    ELSE "AssertionError"

\* The bug of asserting one value only, with no loop over the rest.
NcasesLoop_FirstOnly(values, i) ==
    [result |-> NcasesAssert(values[i]), nn |-> values[i]]

\* for nn in n_cases.values(): the first value that raises, else the last.
RECURSIVE NcasesLoop(_, _)
NcasesLoop(values, i) ==
    LET r == NcasesAssert(values[i])
    IN  IF r # "ok" \/ i = Len(values)
        THEN [result |-> r, nn |-> values[i]]
        ELSE NcasesLoop(values, i + 1)

NoFrame == [endpoint |-> "", n_cases |-> <<>>, nn |-> Absent]

\* endpoints[endpoint].update(n_cases)
UpdateNcases(record, n_cases) ==
    [record EXCEPT !.n_cases_all = n_cases[1],
                   !.n_cases_female = n_cases[2],
                   !.n_cases_male = n_cases[3]]

----------------------------------------------------------------------------
(* Dicts are functions; the empty dict is the function of empty domain.    *)

EmptyDict == <<>>

Put(dict, key, value) ==
    [x \in (DOMAIN dict) \cup {key} |-> IF x = key THEN value ELSE dict[x]]

NotWritten == <<>>
Written(content) == <<content>>

CoreFlags == {"yes", "no"}
LongNames == {"long name"}

\* gather_info, lines 135-143: the record of a definitions row.
NewEndpoint(endpoint, longname, core) ==
    [endpoint |-> endpoint,
     longname |-> longname,
     core_endpoint |-> core,
     uk_meta_analysed |-> "no",
     est_meta_analysed |-> "no",
     n_cases_all |-> Absent,
     n_cases_female |-> Absent,
     n_cases_male |-> Absent,
     gwas_hits |-> Absent]

Fail(type, where) ==
    /\ pc' = "failed"
    /\ error' = Raise(type, where)

----------------------------------------------------------------------------
(* gather_info.                                                            *)

\* One row of the definitions CSV.
ReadDefinitionRow(cores) ==
    /\ pc = "definitions"
    /\ remaining.defs > 0
    /\ \E endpoint \in Codes, longname \in LongNames, core \in cores :
         endpoints' = Put(endpoints, endpoint, NewEndpoint(endpoint, longname, core))
    /\ remaining' = [remaining EXCEPT !.defs = @ - 1]
    /\ UNCHANGED <<pc, error, args, stats_seen, sn, gws_hits, tree, bt,
                   eligible, out, fc, files, hierarchy>>

\* The definitions are exhausted; gather_info calls set_ncases.
CallSetNcases ==
    /\ pc = "definitions"
    /\ pc' = "set_ncases"
    /\ remaining' = [remaining EXCEPT !.defs = 0]
    /\ UNCHANGED <<error, args, endpoints, stats_seen, sn, gws_hits, tree, bt,
                   eligible, out, fc, files, hierarchy>>

\* One item of stats["stats"]: the three counts are asserted, then stored.
SetNcasesItem(values) ==
    /\ pc = "set_ncases"
    /\ remaining.stats > 0
    /\ \E endpoint \in Codes \ stats_seen :
       \E all \in values, female \in values, male \in values :
         LET n_cases == <<all, female, male>>
             checked == NcasesLoop(n_cases, 1)
         IN  /\ sn' = [endpoint |-> endpoint, n_cases |-> n_cases, nn |-> checked.nn]
             /\ stats_seen' = stats_seen \cup {endpoint}
             /\ IF checked.result # "ok"
                THEN /\ Fail(checked.result, "set_ncases")
                     /\ UNCHANGED endpoints
                ELSE IF endpoint \notin DOMAIN endpoints
                THEN /\ Fail("KeyError", "set_ncases")
                     /\ UNCHANGED endpoints
                ELSE /\ endpoints' = [endpoints EXCEPT
                                        ![endpoint] = UpdateNcases(@, n_cases)]
                     /\ UNCHANGED <<pc, error>>
    /\ remaining' = [remaining EXCEPT !.stats = @ - 1]
    /\ UNCHANGED <<args, gws_hits, tree, bt, eligible, out, fc,
                   files, hierarchy>>

\* set_ncases returns; gather_info calls set_meta_analysis for UKBB.
SetNcasesReturn ==
    /\ pc = "set_ncases"
    /\ pc' = "meta_ukbb"
    /\ sn' = NoFrame
    /\ stats_seen' = {}
    /\ remaining' = [remaining EXCEPT !.stats = 0]
    /\ UNCHANGED <<error, args, endpoints, gws_hits, tree, bt,
                   eligible, out, fc, files, hierarchy>>

\* The dict key set_meta_analysis is called with at lines 147 and 148.
NameMeta(at) == IF at = "meta_ukbb" THEN "uk_meta_analysed" ELSE "est_meta_analysed"

\* endpoints[endpoint][name_meta] = "yes"
MarkAnalysed(record, name_meta) ==
    IF name_meta = "uk_meta_analysed"
    THEN [record EXCEPT !.uk_meta_analysed = "yes"]
    ELSE [record EXCEPT !.est_meta_analysed = "yes"]

\* One row of a metaresults TSV.
SetMetaAnalysisRow ==
    /\ pc \in {"meta_ukbb", "meta_est"}
    /\ remaining[pc] > 0
    /\ \E endpoint \in Codes :
         IF endpoint \notin DOMAIN endpoints
         THEN /\ Fail("KeyError", "set_meta_analysis")
              /\ UNCHANGED endpoints
         ELSE /\ endpoints' = [endpoints EXCEPT
                                 ![endpoint] = MarkAnalysed(@, NameMeta(pc))]
              /\ UNCHANGED <<pc, error>>
    /\ remaining' = [remaining EXCEPT ![pc] = @ - 1]
    /\ UNCHANGED <<args, stats_seen, sn, gws_hits, tree, bt,
                   eligible, out, fc, files, hierarchy>>

\* set_meta_analysis returns: UKBB is followed by EST, EST by get_gws_hits.
SetMetaAnalysisReturn ==
    /\ pc \in {"meta_ukbb", "meta_est"}
    /\ pc' = IF pc = "meta_ukbb" THEN "meta_est" ELSE "get_gws_hits"
    /\ remaining' = [remaining EXCEPT ![pc] = 0]
    /\ UNCHANGED <<error, args, endpoints, stats_seen, sn, gws_hits, tree, bt,
                   eligible, out, fc, files, hierarchy>>

\* n_gwsig_1 is CSV text, kept as read.
HitValues == {JStr(<<"0">>), JStr(<<"N", "A">>)}

\* One row of the genetic correlations CSV.
GetGwsHitsRow ==
    /\ pc = "get_gws_hits"
    /\ remaining.gws > 0
    /\ \E endpoint \in Codes, hits \in HitValues :
         gws_hits' = Put(gws_hits, endpoint, hits)
    /\ remaining' = [remaining EXCEPT !.gws = @ - 1]
    /\ UNCHANGED <<pc, error, args, endpoints, stats_seen, sn, tree, bt,
                   eligible, out, fc, files, hierarchy>>

\* gws_hits.get(endpoint)
DictGet(dict, key) == IF key \in DOMAIN dict THEN dict[key] ELSE JNull

\* get_gws_hits returns; every endpoint gets gwas_hits; gather_info returns.
GatherInfoReturn ==
    /\ pc = "get_gws_hits"
    /\ endpoints' = [endpoint \in DOMAIN endpoints |->
                       [endpoints[endpoint] EXCEPT
                          !.gwas_hits = DictGet(gws_hits, endpoint)]]
    /\ gws_hits' = EmptyDict
    /\ pc' = "output_info"
    /\ remaining' = [remaining EXCEPT !.gws = 0]
    /\ UNCHANGED <<error, args, stats_seen, sn, tree, bt, eligible,
                   out, fc, files, hierarchy>>

\* output_info(info, path_out_info)
OutputInfo ==
    /\ pc = "output_info"
    /\ files' = [files EXCEPT !.info = Written(endpoints)]
    /\ pc' = "build_tree"
    /\ UNCHANGED <<error, args, remaining, endpoints, stats_seen, sn, gws_hits,
                   tree, bt, eligible, out, fc, hierarchy>>

----------------------------------------------------------------------------
(* Floats read from CSV text, in hundredths.                               *)

FNum(c) == [nan |-> FALSE, c |-> c]
FNaN == [nan |-> TRUE, c |-> 0]

\* Python's == and >= on floats: every comparison with nan is False.
FEq(x, y) == ~x.nan /\ ~y.nan /\ x.c = y.c
FGe(x, y) == ~x.nan /\ ~y.nan /\ x.c >= y.c

\* The number written by a sequence of decimal digits.
RECURSIVE DigitsValue(_)
DigitsValue(chars) ==
    IF chars = <<>> THEN 0
    ELSE 10 * DigitsValue(SubSeq(chars, 1, Len(chars) - 1))
         + DigitValue(chars[Len(chars)])

\* float(text) for "nan" and for decimals "d", "d.d", "d.dd".
ParseFloat(text) ==
    IF text = <<"n", "a", "n">> THEN FNaN
    ELSE LET dots == {i \in 1..Len(text) : text[i] = "."}
             dot == IF dots = {} THEN Len(text) + 1 ELSE CHOOSE i \in dots : TRUE
             whole == SubSeq(text, 1, dot - 1)
             frac == SubSeq(text, dot + 1, Len(text))
             hundredths == IF Len(frac) = 0 THEN 0
                           ELSE IF Len(frac) = 1 THEN 10 * DigitsValue(frac)
                           ELSE DigitsValue(frac)
         IN  FNum(100 * DigitsValue(whole) + hundredths)

\* The literal 1.0 of line 222.
FullRatio == FNum(100)

\* --subset-threshold: the default 0.5, or 0.2.
Thresholds == {FNum(50), FNum(20)}

\* The texts of ratio_shared_of_b and of jaccard_index.
RatioTexts == {<<"1", ".", "0">>, <<"1">>, <<"0", ".", "6">>}
JaccardTexts == {<<"0", ".", "2">>, <<"0", ".", "5">>, <<"0", ".", "7">>,
                 <<"n", "a", "n">>}

\* The codes and texts of the correlations in narrower runs.
EligibleCodes == {"E1", "E2", "E3"}
FewRatioTexts == {<<"1", ".", "0">>, <<"0", ".", "6">>}
FewJaccardTexts == {<<"0", ".", "2">>, <<"0", ".", "7">>}

NoRow == [line |-> 0, endpoint_a |-> "", endpoint_b |-> "",
          ratio_shared_of_b |-> <<>>, jaccard_index |-> <<>>]

NoEligibilitySet == [supplied |-> FALSE, codes |-> {}]

\* The bug of testing the parent only.
RowEligible_ParentOnly(set, a, b) == ~set.supplied \/ a \in set.codes

\* The eligibility restriction of the build_tree variant that takes one.
RowEligible(set, a, b) == ~set.supplied \/ (a \in set.codes /\ b \in set.codes)

Edge(parent, child, subsets, case_overlap) ==
    [parent |-> parent, child |-> child, subsets |-> subsets,
     case_overlap |-> case_overlap]

\* The bug of inserting at the front of the list.
TreeAppend_Front(list, item) == <<item>> \o list

\* tree.append(...)
TreeAppend(list, item) == Append(list, item)

\* The bug of a missing self-pair test.
SameEndpoint_Never(a, b) == FALSE

\* if row["endpoint_a"] == row["endpoint_b"]: continue
SameEndpoint(a, b) == a = b

\* The bug of testing the threshold before the full subset.
Classify_ThresholdFirst(parent, child, ratio_shared_of_b, case_overlap, threshold) ==
    IF FGe(case_overlap, threshold)
    THEN <<Edge(parent, child, FALSE, case_overlap)>>
    ELSE IF FEq(ratio_shared_of_b, FullRatio)
    THEN <<Edge(parent, child, TRUE, case_overlap)>>
    ELSE <<>>

\* The two branches of lines 222-237: the edge a row appends, if any.
Classify(parent, child, ratio_shared_of_b, case_overlap, threshold) ==
    IF FEq(ratio_shared_of_b, FullRatio)
    THEN <<Edge(parent, child, TRUE, case_overlap)>>
    ELSE IF FGe(case_overlap, threshold)
    THEN <<Edge(parent, child, FALSE, case_overlap)>>
    ELSE <<>>

----------------------------------------------------------------------------
(* build_tree.                                                             *)

\* One row of the correlations CSV.
BuildTreeRow(codes, ratios, jaccards) ==
    /\ pc = "build_tree"
    /\ remaining.tree > 0
    /\ \E a \in codes, b \in codes, ratio \in ratios, jaccard \in jaccards :
         LET line == bt.line + 1
             edge == IF SameEndpoint(a, b) \/ ~RowEligible(eligible, a, b)
                     THEN <<>>
                     ELSE Classify(a, b, ParseFloat(ratio), ParseFloat(jaccard),
                                   args.subset_threshold)
         IN  /\ bt' = [line |-> line, endpoint_a |-> a, endpoint_b |-> b,
                       ratio_shared_of_b |-> ratio, jaccard_index |-> jaccard]
             /\ IF edge = <<>>
                THEN UNCHANGED tree
                ELSE tree' = TreeAppend(tree, edge[1])
    /\ remaining' = [remaining EXCEPT !.tree = @ - 1]
    /\ UNCHANGED <<pc, error, args, endpoints, stats_seen, sn, gws_hits,
                   eligible, out, fc, files, hierarchy>>

\* build_tree returns the list.
BuildTreeReturn ==
    /\ pc = "build_tree"
    /\ pc' = "output_tree"
    /\ bt' = NoRow
    /\ remaining' = [remaining EXCEPT !.tree = 0]
    /\ UNCHANGED <<error, args, endpoints, stats_seen, sn, gws_hits, tree,
                   eligible, out, fc, files, hierarchy>>

\* output_tree(tree, path_out_tree)
OutputTree ==
    /\ pc = "output_tree"
    /\ files' = [files EXCEPT !.tree = Written(tree)]
    /\ pc' = "find_code_cases"
    /\ UNCHANGED <<error, args, remaining, endpoints, stats_seen, sn, gws_hits,
                   tree, bt, eligible, out, fc, hierarchy>>

----------------------------------------------------------------------------
(* find_code_cases.                                                        *)

\* str.lstrip(chars) and str.rstrip(chars): both strip a SET of characters.
RECURSIVE LStrip(_, _)
LStrip(text, chars) ==
    IF text # <<>> /\ Head(text) \in chars THEN LStrip(Tail(text), chars) ELSE text

RECURSIVE RStrip(_, _)
RStrip(text, chars) ==
    IF text # <<>> /\ text[Len(text)] \in chars
    THEN RStrip(SubSeq(text, 1, Len(text) - 1), chars)
    ELSE text

CharsOf(text) == {text[i] : i \in 1..Len(text)}

NameTablePrefix == <<"n", "a", "m", "e", "_", "t", "a", "b", "l", "e", "_">>
JsonSuffix == <<".", "j", "s", "o", "n">>

\* The files path.glob("name_table_*.json") yields: what the * matched.
StarParts == {<<"E", "1">>, <<"T", "2">>}
FileName(star) == NameTablePrefix \o star \o JsonSuffix

\* fpath.name.lstrip("name_table_").rstrip(".json")
EndpointOfFile(name) ==
    RStrip(LStrip(name, CharsOf(NameTablePrefix)), CharsOf(JsonSuffix))

Tags == {"ICD10", "KELA"}

\* Frequency_people: "<5", "0", "3", "12", "x", 3, 0.5, null, NaN
TallyValues ==
    {Sentinel, JStr(<<"0">>), JStr(<<"3">>), JStr(<<"1", "2">>), JStr(<<"x">>),
     JInt(3), JNum(1), JNull, JNaN}

TallyRecords == [Tag : Tags, Frequency_people : TallyValues]

\* int(ncases): [result, value]. A str must be decimal digits, a float is
\* truncated towards zero, None raises TypeError and nan ValueError.
IntOf(ncases) ==
    IF ncases.k = "null" THEN [result |-> "TypeError", value |-> 0]
    ELSE IF ncases.k = "nan" THEN [result |-> "ValueError", value |-> 0]
    ELSE IF ncases.k = "str"
    THEN IF ncases.s # <<>> /\ \A i \in 1..Len(ncases.s) : IsDigit(ncases.s[i])
         THEN [result |-> "ok", value |-> DigitsValue(ncases.s)]
         ELSE [result |-> "ValueError", value |-> 0]
    ELSE [result |-> "ok",
          value |-> IF ncases.n >= 0 THEN ncases.n \div 2
                    ELSE 0 - ((0 - ncases.n) \div 2)]

\* "ok", or the exception raised while evaluating
\*   ncases == "<5" or int(ncases) == 0 or int(ncases) >= 5
CodeAssert(ncases) ==
    IF ncases = Sentinel THEN "ok"
    ELSE LET i == IntOf(ncases)
         IN  IF i.result # "ok" THEN i.result
             ELSE IF i.value = 0 \/ i.value >= MinCell THEN "ok"
             ELSE "AssertionError"

\* for record in data: assert, then code_cases[code] = ncases.
RECURSIVE CodeLoop(_, _, _)
CodeLoop(data, i, code_cases) ==
    IF i > Len(data)
    THEN [result |-> "ok", code_cases |-> code_cases,
          code |-> IF data = <<>> THEN "" ELSE data[Len(data)].Tag,
          ncases |-> IF data = <<>> THEN Absent
                     ELSE data[Len(data)].Frequency_people]
    ELSE LET code == data[i].Tag
             ncases == data[i].Frequency_people
             r == CodeAssert(ncases)
         IN  IF r # "ok"
             THEN [result |-> r, code_cases |-> code_cases,
                   code |-> code, ncases |-> ncases]
             ELSE CodeLoop(data, i + 1, Put(code_cases, code, ncases))

NoFile == [globbed |-> {}, name |-> <<>>, endpoint |-> <<>>, code |-> "",
           ncases |-> Absent, code_cases |-> EmptyDict]

DataOfLength(n) == [1..n -> TallyRecords]

\* One file of the glob: its records are asserted and tallied.
FindCodeCasesFile ==
    /\ pc = "find_code_cases"
    /\ remaining.code_files > 0
    /\ \E star \in StarParts, n \in 0..MaxRecords :
       \E data \in DataOfLength(n) :
         LET name == FileName(star)
             endpoint == EndpointOfFile(name)
             looped == CodeLoop(data, 1, EmptyDict)
         IN  /\ name \notin fc.globbed
             /\ fc' = [globbed |-> fc.globbed \cup {name}, name |-> name,
                       endpoint |-> endpoint, code |-> looped.code,
                       ncases |-> looped.ncases,
                       code_cases |-> looped.code_cases]
             /\ IF looped.result # "ok"
                THEN /\ Fail(looped.result, "find_code_cases")
                     /\ UNCHANGED out
                ELSE /\ out' = Put(out, endpoint, looped.code_cases)
                     /\ UNCHANGED <<pc, error>>
    /\ remaining' = [remaining EXCEPT !.code_files = @ - 1]
    /\ UNCHANGED <<args, endpoints, stats_seen, sn, gws_hits, tree, bt,
                   eligible, files, hierarchy>>

\* find_code_cases returns out.
FindCodeCasesReturn ==
    /\ pc = "find_code_cases"
    /\ pc' = "output_code_cases"
    /\ fc' = NoFile
    /\ remaining' = [remaining EXCEPT !.code_files = 0]
    /\ UNCHANGED <<error, args, endpoints, stats_seen, sn, gws_hits, tree, bt,
                   eligible, out, files, hierarchy>>

\* output_code_cases(code_cases, path_out_code_cases); main returns.
OutputCodeCases ==
    /\ pc = "output_code_cases"
    /\ files' = [files EXCEPT !.code_cases = Written(out)]
    /\ pc' = "done"
    /\ UNCHANGED <<error, args, remaining, endpoints, stats_seen, sn, gws_hits,
                   tree, bt, eligible, out, fc, hierarchy>>

----------------------------------------------------------------------------
(* main: the whole pipeline.                                               *)

NoFiles == [info |-> NotWritten, tree |-> NotWritten, code_cases |-> NotWritten]

NoRows == [defs |-> 0, stats |-> 0, meta_ukbb |-> 0, meta_est |-> 0, gws |-> 0,
           tree |-> 0, code_files |-> 0]

\* The state as main() calls gather_info, with the given inputs to read.
Start(rows) ==
    /\ pc = "definitions"
    /\ error = NoError
    /\ args \in [subset_threshold : Thresholds]
    /\ remaining = rows
    /\ endpoints = EmptyDict
    /\ stats_seen = {}
    /\ sn = NoFrame
    /\ gws_hits = EmptyDict
    /\ tree = <<>>
    /\ bt = NoRow
    /\ eligible = NoEligibilitySet
    /\ out = EmptyDict
    /\ fc = NoFile
    /\ files = NoFiles
    /\ hierarchy = EmptyDict

Init ==
    Start([defs |-> MaxDefRows, stats |-> MaxStatsRows,
           meta_ukbb |-> MaxMetaRows, meta_est |-> MaxMetaRows,
           gws |-> MaxGwsRows, tree |-> MaxPipelineTreeRows,
           code_files |-> MaxCodeFiles])

Next ==
    \/ ReadDefinitionRow(CoreFlags)
    \/ CallSetNcases
    \/ SetNcasesItem(PipelineNcasesValues)
    \/ SetNcasesReturn
    \/ SetMetaAnalysisRow
    \/ SetMetaAnalysisReturn
    \/ GetGwsHitsRow
    \/ GatherInfoReturn
    \/ OutputInfo
    \/ BuildTreeRow(Codes, FewRatioTexts, FewJaccardTexts)
    \/ BuildTreeReturn
    \/ OutputTree
    \/ FindCodeCasesFile
    \/ FindCodeCasesReturn
    \/ OutputCodeCases

Spec == Init /\ [][Next]_vars

----------------------------------------------------------------------------
(* The case-count pass alone: the definitions, then set_ncases.            *)

InitNcases ==
    Start([NoRows EXCEPT !.defs = MaxNcasesDefRows, !.stats = MaxNcasesStatsRows])

NextNcases ==
    \/ ReadDefinitionRow({"yes"})
    \/ CallSetNcases
    \/ SetNcasesItem(NcasesValues)
    \/ SetNcasesReturn

SpecNcases == InitNcases /\ [][NextNcases]_vars

----------------------------------------------------------------------------
(* build_tree alone, called after gather_info read empty inputs.           *)

AtBuildTree(rows, sets) ==
    /\ pc = "build_tree"
    /\ error = NoError
    /\ args \in [subset_threshold : Thresholds]
    /\ remaining = [NoRows EXCEPT !.tree = rows]
    /\ endpoints = EmptyDict
    /\ stats_seen = {}
    /\ sn = NoFrame
    /\ gws_hits = EmptyDict
    /\ tree = <<>>
    /\ bt = NoRow
    /\ eligible \in sets
    /\ out = EmptyDict
    /\ fc = NoFile
    /\ files = [NoFiles EXCEPT !.info = Written(EmptyDict)]
    /\ hierarchy = EmptyDict

InitTree == AtBuildTree(MaxTreeRows, {NoEligibilitySet})

NextTree ==
    \/ BuildTreeRow(Codes, RatioTexts, JaccardTexts)
    \/ BuildTreeReturn
    \/ OutputTree

SpecTree == InitTree /\ [][NextTree]_vars

----------------------------------------------------------------------------
(* The build_tree variant that restricts rows to an eligibility set.       *)

EligibilitySets == {[supplied |-> TRUE, codes |-> set] : set \in SUBSET EligibleCodes}

InitEligible == AtBuildTree(MaxEligibleRows, EligibilitySets)

NextEligible ==
    \/ BuildTreeRow(EligibleCodes, FewRatioTexts, FewJaccardTexts)
    \/ BuildTreeReturn

SpecEligible == InitEligible /\ [][NextEligible]_vars

----------------------------------------------------------------------------
(* The inclusion hierarchy variant: one definitions row at a time, the     *)
(* row's code and the codes of its inclusion list.                         *)

InclusionCodes == {"E1", "E2", "E3"}

NoRelatives == [parents |-> {}, children |-> {}]

\* The entry of a code, empty when the code has not been met.
EntryOf(index, code) == IF code \in DOMAIN index THEN index[code] ELSE NoRelatives

\* The inclusions of the row are united into its code's children.
AddChildren(index, code, include) ==
    Put(index, code, [EntryOf(index, code) EXCEPT !.children = @ \cup include])

\* The bug of giving parents only to the codes that already have an entry.
AddParent_ExistingOnly(index, code, include) ==
    [x \in DOMAIN index |->
        IF x \in include
        THEN [index[x] EXCEPT !.parents = @ \cup {code}]
        ELSE index[x]]

\* The row's code is united into the parents of each included code.
AddParent(index, code, include) ==
    [x \in (DOMAIN index) \cup include |->
        IF x \in include
        THEN [EntryOf(index, x) EXCEPT !.parents = @ \cup {code}]
        ELSE index[x]]

InclusionRow ==
    /\ pc = "inclusion"
    /\ remaining.defs > 0
    /\ \E code \in InclusionCodes, include \in SUBSET InclusionCodes :
         hierarchy' = AddParent(AddChildren(hierarchy, code, include), code, include)
    /\ remaining' = [remaining EXCEPT !.defs = @ - 1]
    /\ UNCHANGED <<pc, error, args, endpoints, stats_seen, sn, gws_hits, tree,
                   bt, eligible, out, fc, files>>

InclusionReturn ==
    /\ pc = "inclusion"
    /\ pc' = "done"
    /\ remaining' = [remaining EXCEPT !.defs = 0]
    /\ UNCHANGED <<error, args, endpoints, stats_seen, sn, gws_hits, tree, bt,
                   eligible, out, fc, files, hierarchy>>

InitInclusion ==
    /\ pc = "inclusion"
    /\ error = NoError
    /\ args = [subset_threshold |-> FNum(50)]
    /\ remaining = [NoRows EXCEPT !.defs = MaxInclRows]
    /\ endpoints = EmptyDict
    /\ stats_seen = {}
    /\ sn = NoFrame
    /\ gws_hits = EmptyDict
    /\ tree = <<>>
    /\ bt = NoRow
    /\ eligible = NoEligibilitySet
    /\ out = EmptyDict
    /\ fc = NoFile
    /\ files = NoFiles
    /\ hierarchy = EmptyDict

NextInclusion ==
    \/ InclusionRow
    \/ InclusionReturn

SpecInclusion == InitInclusion /\ [][NextInclusion]_vars

----------------------------------------------------------------------------
(* The claims.                                                             *)

\* A count that is absent, not-a-number, exactly 0, or at least 5.
CountIsSafe(v) == v = JNull \/ v = JNaN \/ (v.k = "num" /\ (v.n = 0 \/ v.n >= 2 * 5))

\* A count that is exactly 1, 2, 3 or 4.
CountIsSmall(v) == v.k = "num" /\ v.n \in {2, 4, 6, 8}

GuardRaisedInSetNcases ==
    /\ pc = "failed"
    /\ error.where = "set_ncases"
    /\ error.type \in {"AssertionError", "TypeError"}

\* C1: in the case-count pass the check of a stats item succeeds if and only
\* if each of its counts is absent, not-a-number, 0 or >= 5; the count nn at
\* which the loop stopped is unsafe exactly when the check raised, and a count
\* of 1, 2, 3 or 4 always raises the assertion error.
C1_GuardIff ==
    sn.n_cases # <<>> =>
        /\ GuardRaisedInSetNcases <=> \E i \in 1..3 : ~CountIsSafe(sn.n_cases[i])
        /\ GuardRaisedInSetNcases <=> ~CountIsSafe(sn.nn)
        /\ CountIsSmall(sn.nn) => error = Raise("AssertionError", "set_ncases")

\* A stats item whose first two counts pass (null, NaN) and whose third is 4.
C1_Witness ==
    /\ sn.n_cases = <<JNull, JNaN, JInt(4)>>
    /\ error = Raise("AssertionError", "set_ncases")

CountsOf(record) == {record.n_cases_all, record.n_cases_female, record.n_cases_male}

\* C2: after any sequence of stats items no endpoint record holds an all,
\* female or male count of 1..4, and an item on which the guard raises leaves
\* every record as it was.
C2_NoSmallCountStored ==
    [][/\ \A e \in DOMAIN endpoints' : \A v \in CountsOf(endpoints'[e]) : ~CountIsSmall(v)
       /\ GuardRaisedInSetNcases' => endpoints' = endpoints]_vars

\* One endpoint holds stored counts, and the item of another, registered
\* endpoint raised at its last count and left that record without counts.
C2_Witness ==
    /\ error = Raise("AssertionError", "set_ncases")
    /\ sn.n_cases = <<JInt(5), JInt(0), JInt(3)>>
    /\ sn.endpoint \in DOMAIN endpoints
    /\ endpoints[sn.endpoint].n_cases_all = Absent
    /\ \E e \in DOMAIN endpoints : endpoints[e].n_cases_all = JInt(5)

\* C3: a run in which a fatal condition is raised has written none of the
\* three output files.
C3_NoPartialOutput == pc = "failed" => files = NoFiles

\* C4: on both count paths the sentinel "<5" is accepted where it is checked
\* and is stored as the sentinel itself.
C4_SentinelAcceptedOnBothPaths ==
    /\ sn.nn = Sentinel =>
          /\ ~GuardRaisedInSetNcases
          /\ sn.endpoint \in DOMAIN endpoints =>
                Sentinel \in CountsOf(endpoints[sn.endpoint])
    /\ fc.ncases = Sentinel =>
          /\ error.where # "find_code_cases"
          /\ fc.code_cases[fc.code] = Sentinel

\* The meaning of the texts of a row, written out.
RatioIsOne(text) == text \in {<<"1", ".", "0">>, <<"1">>}

MetricHundredths ==
    {<<(<<"0", ".", "2">>), 20>>, <<(<<"0", ".", "5">>), 50>>,
     <<(<<"0", ".", "7">>), 70>>}

MetricMeets(text, threshold) ==
    \E m \in MetricHundredths : m[1] = text /\ m[2] >= threshold.c

\* C5: a row with A # B appends an edge if and only if its ratio is exactly
\* 1.0 or its metric is >= the threshold; the edge has subsets = true exactly
\* when the ratio is 1.0; a row meeting neither appends nothing and raises
\* nothing.
C5_EdgeIff ==
    [][(bt'.line = bt.line + 1 /\ bt'.endpoint_a # bt'.endpoint_b) =>
          LET full == RatioIsOne(bt'.ratio_shared_of_b)
              meets == MetricMeets(bt'.jaccard_index, args.subset_threshold)
          IN  /\ Len(tree') = Len(tree) + (IF full \/ meets THEN 1 ELSE 0)
              /\ (full \/ meets) => (tree'[Len(tree')].subsets <=> full)
              /\ pc' = "build_tree"
              /\ error' = NoError]_vars

\* The spec's example: ratio 1.0 and metric 0.2 under the threshold 0.5.
C5_Witness ==
    /\ args.subset_threshold = FNum(50)
    /\ bt.ratio_shared_of_b = <<"1", ".", "0">>
    /\ bt.jaccard_index = <<"0", ".", "2">>
    /\ bt.endpoint_a # bt.endpoint_b
    /\ tree # <<>>
    /\ tree[Len(tree)] = Edge(bt.endpoint_a, bt.endpoint_b, TRUE, FNum(20))

\* C6: no edge of the tree has its parent equal to its child.
C6_NoSelfEdge == \A i \in 1..Len(tree) : tree[i].parent # tree[i].child

\* A row with A = B and ratio 1.0 was read after a row that gave an edge.
C6_Witness ==
    /\ bt.line = 2
    /\ bt.endpoint_a = bt.endpoint_b
    /\ bt.ratio_shared_of_b = <<"1", ".", "0">>
    /\ Len(tree) = 1

\* C7: a row appends at most one edge, the edge of the row goes after every
\* edge of the rows before it, and the edges already there keep their places.
C7_OrderPreserved ==
    [][\/ tree' = tree
       \/ /\ bt'.line = bt.line + 1
          /\ Len(tree') = Len(tree) + 1
          /\ SubSeq(tree', 1, Len(tree)) = tree
          /\ tree'[Len(tree')].parent = bt'.endpoint_a
          /\ tree'[Len(tree')].child = bt'.endpoint_b
          /\ tree'[Len(tree')].case_overlap = ParseFloat(bt'.jaccard_index)]_vars

\* Three rows read, the second dropped, two different edges in row order.
C7_Witness ==
    /\ bt.line = 3
    /\ Len(tree) = 2
    /\ tree[1].parent = "E1"
    /\ tree[2].parent = "E2"
    /\ tree[2] = Edge(bt.endpoint_a, bt.endpoint_b, FALSE, FNum(50))

\* C8: the meta-analysis pass raises no fatal error on a code that has no
\* entry in the endpoints.
C8_MetaPassTolerates == error.where # "set_meta_analysis"

\* C9: with an eligibility set supplied, no edge has a parent or a child
\* outside the set.
C9_OnlyEligibleEdges ==
    eligible.supplied =>
        \A i \in 1..Len(tree) :
            tree[i].parent \in eligible.codes /\ tree[i].child \in eligible.codes

\* The spec's example: eligible = {E1, E2}, the row (E1, E3) with ratio 1.0
\* is dropped after a row that gave an edge.
C9_Witness ==
    /\ eligible = [supplied |-> TRUE, codes |-> {"E1", "E2"}]
    /\ bt.line = 2
    /\ bt.endpoint_a = "E1"
    /\ bt.endpoint_b = "E3"
    /\ bt.ratio_shared_of_b = <<"1", ".", "0">>
    /\ Len(tree) = 1

Invertible(index) ==
    \A a \in InclusionCodes, b \in InclusionCodes :
        (a \in DOMAIN index /\ b \in index[a].children)
            <=> (b \in DOMAIN index /\ a \in index[b].parents)

\* C10: after every row, B is in children(A) if and only if A is in
\* parents(B); every included code has an entry; and of the entries a row
\* creates only the row's own code can have children.
C10_InclusionInvertible ==
    [][/\ Invertible(hierarchy')
       /\ \A a \in DOMAIN hierarchy' : hierarchy'[a].children \subseteq DOMAIN hierarchy'
       /\ Cardinality({x \in (DOMAIN hierarchy') \ (DOMAIN hierarchy) :
                          hierarchy'[x].children # {}}) <= 1]_vars

\* The spec's scenario: E1 includes E2|E3, E2 includes nothing.
C10_Witness ==
    /\ remaining.defs = MaxInclRows - 2
    /\ DOMAIN hierarchy = {"E1", "E2", "E3"}
    /\ hierarchy["E1"] = [parents |-> {}, children |-> {"E2", "E3"}]
    /\ hierarchy["E2"] = [parents |-> {"E1"}, children |-> {}]
    /\ hierarchy["E3"] = [parents |-> {"E1"}, children |-> {}]

====
